---------------------------- MODULE Spec2Model ----------------------------
(* A state-machine model of the Obsidian AI plugin (src/src/main.ts):      *)
(* the plugin object with its settings, its two nullable clients and its   *)
(* status bar, the reindex runs it starts, the settings tab's onChange     *)
(* handlers and the AI search modal.  Strings that the code splits, trims  *)
(* or prefix-matches are sequences of one-character strings; credentials   *)
(* are only ever compared with "" and stay TLA+ strings.                   *)
EXTENDS Integers, Sequences, FiniteSets, TLC

\* ------------------------------------------------------------- bounds
MaxRuns == 3
MaxPendingSaves == 1
MaxEdits == 1
MaxModals == 2
MaxRequests == 2
\* topK, the default number of results of a search, scaled to the corpus
TopK == 2

\* ------------------------------------------------------------- values
\* null, undefined and the two clients are records of one shape.
Null == [kind |-> "null", url |-> "", key |-> ""]
Undefined == [kind |-> "undefined", url |-> "", key |-> ""]

StatusMissing == "[AI] Missing API variables"
StatusReady == "[AI] Ready"
StatusIndexing == "[AI] Indexing..."
StatusLoaded == "[AI] Loaded"
StatusError == "[AI] Error"
StatusNone == ""

Credentials == {"", "k"}

RunIds == 1..MaxRuns

\* Paths of the vault and the texts typed into the directory settings.
PathA == <<"a">>
PathXB == <<"x", "/", "b">>
Paths == {PathA, PathXB}
DirTexts == {<< >>, <<"x">>, <<"b", ",", " ", "x">>}

\* A document's text is a sequence of paragraphs; Absent is no document.
Absent == <<0>>
Contents == {<<1>>, <<2, 3>>}

\* ------------------------------------------------------------ strings
IsSpace(c) == c = " "

RECURSIVE TrimStart(_)
TrimStart(s) ==
    IF s # << >> /\ IsSpace(Head(s)) THEN TrimStart(Tail(s)) ELSE s

RECURSIVE TrimEnd(_)
TrimEnd(s) ==
    IF s # << >> /\ IsSpace(s[Len(s)])
    THEN TrimEnd(SubSeq(s, 1, Len(s) - 1))
    ELSE s

\* String.prototype.trim
Trim(s) == TrimEnd(TrimStart(s))

\* String.prototype.split(","): "" splits to [""], "x," to ["x", ""].
RECURSIVE SplitComma(_)
SplitComma(s) ==
    LET commas == {i \in 1..Len(s) : s[i] = ","}
    IN  IF commas = {}
        THEN <<s>>
        ELSE LET i == CHOOSE j \in commas : \A k \in commas : j <= k
             IN  <<SubSeq(s, 1, i - 1)>> \o SplitComma(SubSeq(s, i + 1, Len(s)))

\* value.split(",").map((path) => path.trim())
DirsList(value) ==
    LET parts == SplitComma(value)
    IN  [i \in 1..Len(parts) |-> Trim(parts[i])]

StartsWith(s, prefix) ==
    Len(prefix) <= Len(s) /\ SubSeq(s, 1, Len(prefix)) = prefix

MatchesAny(path, dirs) ==
    \E i \in 1..Len(dirs) : StartsWith(path, dirs[i])

\* -------------------------------------------------------------- state
VARIABLES
    phase,              \* "constructed" or "loaded": onload has run
    settings,           \* this.settings
    supabaseClient,     \* this.supabaseClient
    openai,             \* this.openai
    statusBarItemEl,    \* the text of the status bar item
    layoutReady,        \* an onLayoutReady callback is registered and waiting
    pendingSaves,       \* onChange handlers suspended at await saveSettings()
    runs,               \* the generateEmbeddings calls, by run id
    lastSettled,        \* the run that settled last (0: none)
    vault,              \* the document source: path -> text or Absent
    store,              \* the vector store: path -> stored document or NoDoc
    edits,              \* edits of the vault and of the directory settings so far
    modalOpen,          \* the AISearchModal instance that is open (0: none)
    modalCount,         \* AISearchModal instances constructed so far
    keyListeners,       \* the modals whose keyListener is registered on document
    typedInstance,      \* this.typedInstance of each modal (0: undefined)
    typeds,             \* every Typed instance constructed, in order
    requests,           \* generativeSearch calls awaited by a keyListener
    requestCount,       \* Shift+Enter presses handled so far
    answerHTML,         \* the content of the #answer element in the document
    suggestions,        \* what getSuggestions returned last
    searched,           \* what semanticSearch returned to it
    unhandledRejection  \* an async handler's promise rejected with no catch

vars == <<phase, settings, supabaseClient, openai, statusBarItemEl, layoutReady,
          pendingSaves, runs, lastSettled, vault, store, edits,
          modalOpen, modalCount, keyListeners, typedInstance, typeds, requests,
          requestCount, answerHTML, suggestions, searched,
          unhandledRejection>>

pluginVars == <<phase, settings, supabaseClient, openai, statusBarItemEl,
                layoutReady, pendingSaves>>
indexVars == <<runs, lastSettled, vault, store, edits>>
modalVars == <<modalOpen, modalCount, keyListeners, typedInstance, typeds,
               requests, requestCount, answerHTML, suggestions, searched,
               unhandledRejection>>

\* ----------------------------------------------------------- settings
DEFAULT_SETTINGS ==
    [supabaseUrl |-> "", supabaseKey |-> "", openaiKey |-> "",
     indexOnOpen |-> FALSE,
     excludedDirs |-> << >>, excludedDirsList |-> << >>,
     publicDirs |-> << >>, publicDirsList |-> << >>]

\* What saveData can have written: the defaults, overridden by any earlier
\* edit of the settings tab.
SavedDirs == {<< << >>, << >> >>} \cup {<<t, DirsList(t)>> : t \in DirTexts}

SavedSecrets ==
    {[DEFAULT_SETTINGS EXCEPT !.supabaseUrl = u, !.supabaseKey = k,
                              !.openaiKey = o, !.indexOnOpen = b] :
        u \in Credentials, k \in Credentials, o \in Credentials, b \in BOOLEAN}

SavedData ==
    {[s EXCEPT !.excludedDirs = e[1], !.excludedDirsList = e[2],
               !.publicDirs = q[1], !.publicDirsList = q[2]] :
        s \in SavedSecrets, e \in SavedDirs, q \in SavedDirs}

\* ------------------------------------------------------------ clients
Truthy(x) == x # Null /\ x # Undefined

\* A setup that would build the client from the URL alone.
NewSupabaseClientUrlOnly(s) ==
    IF ~(s.supabaseUrl = "")
    THEN [kind |-> "SupabaseClient", url |-> s.supabaseUrl,
          key |-> s.supabaseKey]
    ELSE Null

\* setupSupabase, lines 57-75: the client is dropped, then rebuilt when both
\* the URL and the key are non-empty.
NewSupabaseClient(s) ==
    IF ~(s.supabaseUrl = "" \/ s.supabaseKey = "")
    THEN [kind |-> "SupabaseClient", url |-> s.supabaseUrl,
          key |-> s.supabaseKey]
    ELSE Null

\* setupOpenai, lines 88-95.
NewOpenai(s) ==
    IF ~(s.openaiKey = "")
    THEN [kind |-> "OpenAIApi", url |-> "", key |-> s.openaiKey]
    ELSE Null

\* The status either setup call writes last, lines 80-84 and 100-104.
SetupStatus(sc, oa) ==
    IF ~(Truthy(sc) /\ Truthy(oa)) THEN StatusMissing ELSE StatusReady

\* The guard both commands and the layout-ready callback use.
ClientsPresent == supabaseClient # Null /\ openai # Null

\* --------------------------------------------------------------- runs
NoDoc == [hash |-> Absent, chunks |-> << >>, visibility |-> FALSE]

NoMarks == [p \in Paths |-> Absent]

NoRun ==
    [phase |-> "none", excludedPaths |-> << >>, publicPaths |-> << >>,
     toIndex |-> NoMarks, toDelete |-> {},
     created |-> 0, updated |-> 0, deleted |-> 0, failed |-> 0,
     embedCalls |-> 0, vaultChanged |-> FALSE, idem |-> FALSE,
     site |-> "none"]

Started == {r \in RunIds : runs[r].phase # "none"}
InFlight == {r \in RunIds : runs[r].phase \in {"enumerate", "process"}}
Settled == {r \in RunIds : runs[r].phase \in {"resolved", "rejected"}}

FreeRunId == Cardinality(Started) + 1

\* The run a new request would repeat: it resolved last, with nothing failed,
\* with the same arguments, and no document has changed since it started.
Repeats(excluded, public) ==
    /\ lastSettled # 0
    /\ runs[lastSettled].phase = "resolved"
    /\ runs[lastSettled].failed = 0
    /\ ~runs[lastSettled].vaultChanged
    /\ runs[lastSettled].excludedPaths = excluded
    /\ runs[lastSettled].publicPaths = public

\* generateEmbeddings(supabaseClient, openai, excludedDirsList, publicDirsList)
\* is called: a run starts, whatever other runs are in flight.  site is the
\* call site: "onLayoutReady" (line 128) or "refresh-embedding" (line 174).
NewRun(excluded, public, site) ==
    [NoRun EXCEPT !.phase = "enumerate", !.excludedPaths = excluded,
                  !.publicPaths = public, !.idem = Repeats(excluded, public),
                  !.site = site]

CanStartRun == FreeRunId \in RunIds

StartRun(site) ==
    runs' = [runs EXCEPT ![FreeRunId] =
                NewRun(settings.excludedDirsList, settings.publicDirsList,
                       site)]

\* ------------------------------------------------------------ Indexer
\* Chunker: one chunk per paragraph of the text.
Chunker(text) == text

\* Embedding Client: one vector per chunk text.
Embed(texts) == [i \in 1..Len(texts) |-> texts[i]]

Hash(text) == text

Candidates(excluded) ==
    {p \in Paths : vault[p] # Absent /\ ~MatchesAny(p, excluded)}

\* Steps 1 and 2 of reindex: enumerate the candidates, mark the new and
\* the changed ones for re-indexing and the stored documents without a
\* candidate for deletion.
Enumerate(r) ==
    /\ runs[r].phase = "enumerate"
    /\ LET cand == Candidates(runs[r].excludedPaths)
           marks == [p \in Paths |->
                        IF p \in cand /\ store[p].hash # Hash(vault[p])
                        THEN vault[p] ELSE Absent]
           gone == {p \in Paths : store[p] # NoDoc /\ p \notin cand}
       IN  runs' = [runs EXCEPT ![r].phase = "process",
                                ![r].toIndex = marks,
                                ![r].toDelete = gone]
    /\ UNCHANGED <<pluginVars, modalVars, lastSettled, vault, store, edits>>

StoredDocument(text, path, public) ==
    [hash |-> Hash(text), chunks |-> Embed(Chunker(text)),
     visibility |-> MatchesAny(path, public)]

\* Step 3 for one document: chunk, embed, replace its chunks atomically.
IndexDocument(r, p) ==
    /\ runs[r].phase = "process"
    /\ runs[r].toIndex[p] # Absent
    /\ store' = [store EXCEPT ![p] =
                    StoredDocument(runs[r].toIndex[p], p, runs[r].publicPaths)]
    /\ runs' = [runs EXCEPT
                    ![r].toIndex[p] = Absent,
                    ![r].embedCalls = @ + 1,
                    ![r].created = IF store[p] = NoDoc THEN @ + 1 ELSE @,
                    ![r].updated = IF store[p] = NoDoc THEN @ ELSE @ + 1]
    /\ UNCHANGED <<pluginVars, modalVars, lastSettled, vault, edits>>

\* A run that gives up on its first failure: the remaining documents are
\* dropped with the failing one.
FailedDocumentAborts(run, p) ==
    [run EXCEPT !.toIndex = NoMarks, !.embedCalls = @ + 1, !.failed = @ + 1]

\* Step 5: the embedding or the write of one document fails; the failure is
\* counted and the run goes on.
FailedDocument(run, p) ==
    [run EXCEPT !.toIndex[p] = Absent, !.embedCalls = @ + 1, !.failed = @ + 1]

IndexDocumentFails(r, p) ==
    /\ runs[r].phase = "process"
    /\ runs[r].toIndex[p] # Absent
    /\ runs' = [runs EXCEPT ![r] = FailedDocument(runs[r], p)]
    /\ UNCHANGED <<pluginVars, modalVars, lastSettled, vault, store, edits>>

\* Step 4 for one document: delete the Document and all its Chunks.
DeleteDocument(r, p) ==
    /\ runs[r].phase = "process"
    /\ p \in runs[r].toDelete
    /\ store' = [store EXCEPT ![p] = NoDoc]
    /\ runs' = [runs EXCEPT
                    ![r].toDelete = @ \ {p},
                    ![r].deleted = IF store[p] = NoDoc THEN @ ELSE @ + 1]
    /\ UNCHANGED <<pluginVars, modalVars, lastSettled, vault, edits>>

RunFinished(r) ==
    /\ runs[r].phase = "process"
    /\ runs[r].toIndex = NoMarks
    /\ runs[r].toDelete = {}

\* The promise resolves and the .then handler runs, lines 134-136, 180-182.
RunResolves(r) ==
    /\ RunFinished(r)
    /\ runs' = [runs EXCEPT ![r].phase = "resolved"]
    /\ lastSettled' = r
    /\ statusBarItemEl' = StatusLoaded
    /\ UNCHANGED <<phase, settings, supabaseClient, openai, layoutReady,
                   pendingSaves, vault, store, edits, modalVars>>

\* A rejection with no .catch handler: nothing is written to the status bar.
RunRejectsUncaught(r) ==
    /\ runs[r].phase = "enumerate"
    /\ runs' = [runs EXCEPT ![r].phase = "rejected"]
    /\ lastSettled' = r
    /\ UNCHANGED <<phase, settings, supabaseClient, openai, statusBarItemEl,
                   layoutReady, pendingSaves, vault, store, edits, modalVars>>

\* The promise rejects (the store cannot be read) and the .catch handler
\* runs, lines 137-140, 183-186.
RunRejects(r) ==
    /\ runs[r].phase = "enumerate"
    /\ runs' = [runs EXCEPT ![r].phase = "rejected"]
    /\ lastSettled' = r
    /\ statusBarItemEl' = StatusError
    /\ UNCHANGED <<phase, settings, supabaseClient, openai, layoutReady,
                   pendingSaves, vault, store, edits, modalVars>>

\* The document source changes: a note is written, created or removed.
EditDocument(p, text) ==
    /\ edits < MaxEdits
    /\ vault[p] # text
    /\ vault' = [vault EXCEPT ![p] = text]
    /\ edits' = edits + 1
    /\ runs' = [r \in RunIds |->
                   IF runs[r].phase # "none"
                   THEN [runs[r] EXCEPT !.vaultChanged = TRUE]
                   ELSE runs[r]]
    /\ UNCHANGED <<pluginVars, modalVars, lastSettled, store>>

\* ------------------------------------------------------------- plugin
\* onload, lines 107-195, after loadSettings has merged the saved data into
\* the defaults: both setup calls, the index-on-open registration and the
\* two commands.  setupSupabase runs while this.openai is still undefined.
Onload(data) ==
    /\ phase = "constructed"
    /\ phase' = "loaded"
    /\ settings' = data
    /\ supabaseClient' = NewSupabaseClient(data)
    /\ openai' = NewOpenai(data)
    /\ statusBarItemEl' = SetupStatus(NewSupabaseClient(data), NewOpenai(data))
    /\ layoutReady' = (/\ data.indexOnOpen
                       /\ NewSupabaseClient(data) # Null
                       /\ NewOpenai(data) # Null)
    /\ UNCHANGED <<pendingSaves, indexVars, modalVars>>

\* A callback that would not look at the clients again.
LayoutReadyCallbackUnchecked ==
    /\ layoutReady
    /\ layoutReady' = FALSE
    /\ IF CanStartRun
       THEN /\ statusBarItemEl' = StatusIndexing
            /\ StartRun("onLayoutReady")
       ELSE UNCHANGED <<statusBarItemEl, runs>>
    /\ UNCHANGED <<phase, settings, supabaseClient, openai, pendingSaves,
                   lastSettled, vault, store, edits, modalVars>>

\* The onLayoutReady callback, lines 125-142.
LayoutReadyCallback ==
    /\ layoutReady
    /\ layoutReady' = FALSE
    /\ IF ClientsPresent /\ CanStartRun
       THEN /\ statusBarItemEl' = StatusIndexing
            /\ StartRun("onLayoutReady")
       ELSE UNCHANGED <<statusBarItemEl, runs>>
    /\ UNCHANGED <<phase, settings, supabaseClient, openai, pendingSaves,
                   lastSettled, vault, store, edits, modalVars>>

\* What checkCallback returns for "Refresh Index", lines 171, 189, 192.
RefreshIndexCheck == ClientsPresent

\* What checkCallback returns for "AI Search", lines 150, 160, 163.
AISearchCheck == ClientsPresent

\* "Refresh Index" is run (checking = false), lines 170-187.
RefreshIndexCommand ==
    /\ phase = "loaded"
    /\ RefreshIndexCheck
    /\ CanStartRun
    /\ statusBarItemEl' = StatusIndexing
    /\ StartRun("refresh-embedding")
    /\ UNCHANGED <<phase, settings, supabaseClient, openai, layoutReady,
                   pendingSaves, lastSettled, vault, store, edits, modalVars>>

\* The secrets' onChange handlers up to await saveSettings(), lines 436-438,
\* 449-451, 460-462.
SetSupabaseUrl(value) ==
    /\ phase = "loaded"
    /\ value # settings.supabaseUrl
    /\ pendingSaves["supabase"] < MaxPendingSaves
    /\ settings' = [settings EXCEPT !.supabaseUrl = value]
    /\ pendingSaves' = [pendingSaves EXCEPT !["supabase"] = @ + 1]
    /\ UNCHANGED <<phase, supabaseClient, openai, statusBarItemEl, layoutReady,
                   indexVars, modalVars>>

SetSupabaseKey(value) ==
    /\ phase = "loaded"
    /\ value # settings.supabaseKey
    /\ pendingSaves["supabase"] < MaxPendingSaves
    /\ settings' = [settings EXCEPT !.supabaseKey = value]
    /\ pendingSaves' = [pendingSaves EXCEPT !["supabase"] = @ + 1]
    /\ UNCHANGED <<phase, supabaseClient, openai, statusBarItemEl, layoutReady,
                   indexVars, modalVars>>

SetOpenaiKey(value) ==
    /\ phase = "loaded"
    /\ value # settings.openaiKey
    /\ pendingSaves["openai"] < MaxPendingSaves
    /\ settings' = [settings EXCEPT !.openaiKey = value]
    /\ pendingSaves' = [pendingSaves EXCEPT !["openai"] = @ + 1]
    /\ UNCHANGED <<phase, supabaseClient, openai, statusBarItemEl, layoutReady,
                   indexVars, modalVars>>

\* saveSettings has returned and the handler calls setupSupabase, lines
\* 439, 452 and 56-85.
SetupSupabase ==
    /\ pendingSaves["supabase"] > 0
    /\ pendingSaves' = [pendingSaves EXCEPT !["supabase"] = @ - 1]
    /\ supabaseClient' = NewSupabaseClient(settings)
    /\ statusBarItemEl' = SetupStatus(NewSupabaseClient(settings), openai)
    /\ UNCHANGED <<phase, settings, openai, layoutReady, indexVars, modalVars>>

\* saveSettings has returned and the handler calls setupOpenai, lines 463
\* and 87-105.
SetupOpenai ==
    /\ pendingSaves["openai"] > 0
    /\ pendingSaves' = [pendingSaves EXCEPT !["openai"] = @ - 1]
    /\ openai' = NewOpenai(settings)
    /\ statusBarItemEl' = SetupStatus(supabaseClient, NewOpenai(settings))
    /\ UNCHANGED <<phase, settings, supabaseClient, layoutReady, indexVars,
                   modalVars>>

\* The "Index on start" toggle, lines 421-424.
SetIndexOnOpen(value) ==
    /\ phase = "loaded"
    /\ value # settings.indexOnOpen
    /\ settings' = [settings EXCEPT !.indexOnOpen = value]
    /\ UNCHANGED <<phase, supabaseClient, openai, statusBarItemEl, layoutReady,
                   pendingSaves, indexVars, modalVars>>

\* The "Excluded Directories" text area, lines 373-379.
SetExcludedDirs(value) ==
    /\ phase = "loaded"
    /\ value # settings.excludedDirs
    /\ edits < MaxEdits
    /\ edits' = edits + 1
    /\ settings' = [settings EXCEPT !.excludedDirs = value,
                                    !.excludedDirsList = DirsList(value)]
    /\ UNCHANGED <<phase, supabaseClient, openai, statusBarItemEl, layoutReady,
                   pendingSaves, runs, lastSettled, vault, store, modalVars>>

\* The "Public Directories" text area, lines 391-397.
SetPublicDirs(value) ==
    /\ phase = "loaded"
    /\ value # settings.publicDirs
    /\ edits < MaxEdits
    /\ edits' = edits + 1
    /\ settings' = [settings EXCEPT !.publicDirs = value,
                                    !.publicDirsList = DirsList(value)]
    /\ UNCHANGED <<phase, supabaseClient, openai, statusBarItemEl, layoutReady,
                   pendingSaves, runs, lastSettled, vault, store, modalVars>>

\* ------------------------------------------------------ Search Engine
Queries == 1..3
ModalIds == 1..MaxModals

Distance(a, b) == IF a >= b THEN a - b ELSE b - a

\* Similarity of a query vector and a chunk vector: higher is closer.
Similarity(q, v) == 10 - Distance(q, v)

PathRank(p) == IF p = PathA THEN 1 ELSE 2

\* The rows of the store: every chunk with its owning document.
StoredChunks(st) ==
    UNION {{[path |-> p, seq |-> i, vector |-> st[p].chunks[i]] :
                i \in 1..Len(st[p].chunks)} : p \in Paths}

\* Descending similarity; ties by document path, then by sequence index.
RanksBefore(q, c, d) ==
    \/ Similarity(q, c.vector) > Similarity(q, d.vector)
    \/ /\ Similarity(q, c.vector) = Similarity(q, d.vector)
       /\ \/ PathRank(c.path) < PathRank(d.path)
          \/ PathRank(c.path) = PathRank(d.path) /\ c.seq < d.seq

RECURSIVE Ranked(_, _)
Ranked(q, rows) ==
    IF rows = {}
    THEN << >>
    ELSE LET best == CHOOSE c \in rows :
                        \A d \in rows \ {c} : RanksBefore(q, c, d)
         IN  <<best>> \o Ranked(q, rows \ {best})

SearchResult(q, row) ==
    [content |-> row.vector, document |-> [path |-> row.path],
     seq |-> row.seq, similarity |-> Similarity(q, row.vector)]

\* search(query, topK): the topK most similar chunks, best first.
semanticSearch(st, q) ==
    LET ranked == Ranked(q, StoredChunks(st))
        n == IF Len(ranked) < TopK THEN Len(ranked) ELSE TopK
    IN  [i \in 1..n |-> SearchResult(q, ranked[i])]

\* A getSuggestions that hands the results over worst first.
getSuggestionsReversed(results) ==
    [i \in 1..Len(results) |-> results[Len(results) + 1 - i]]

\* getSuggestions, lines 319-326: the results of semanticSearch, as they are.
getSuggestions(results) == results

\* -------------------------------------------------------------- modal
NoElement == [kind |-> "none", of |-> 0]
Hint == [kind |-> "hint", of |-> 0]
Thinking == [kind |-> "thinking", of |-> 0]
NoAnswer == [kind |-> "noanswer", of |-> 0]
NullAnswer == [kind |-> "null", of |-> 0]
AnswerText(n) == [kind |-> "text", of |-> n]

Requests == [modal : ModalIds, n : 1..MaxRequests]
Answers == {AnswerText(n) : n \in 1..MaxRequests} \cup {NullAnswer}

\* answer ?? "No answer", line 300
AnswerString(answer) == IF answer = NullAnswer THEN NoAnswer ELSE answer

\* answer(query, systemPrompt): nothing retrieved gives the sentinel without a
\* completion call; otherwise the generated text, or the sentinel when the
\* Completion Client fails.
generativeSearch(st, n) ==
    IF StoredChunks(st) = {}
    THEN {NullAnswer}
    ELSE {AnswerText(n), NullAnswer}

\* "AI Search" is run (checking = false), lines 150-160: the modal is
\* constructed and opened, and onOpen registers its keyListener, line 307.
AISearchCommand ==
    /\ phase = "loaded"
    /\ AISearchCheck
    /\ modalOpen = 0
    /\ modalCount < MaxModals
    /\ modalCount' = modalCount + 1
    /\ modalOpen' = modalCount + 1
    /\ keyListeners' = keyListeners \cup {modalCount + 1}
    /\ answerHTML' = Hint
    /\ UNCHANGED <<pluginVars, indexVars, typedInstance, typeds, requests,
                   requestCount, suggestions, searched, unhandledRejection>>

DestroyTyped(ts, t) ==
    IF t = 0 THEN ts ELSE [ts EXCEPT ![t].alive = FALSE]

\* keyListener on Shift+Enter up to await generativeSearch, lines 279-297.
KeyListener(m) ==
    /\ m \in keyListeners
    /\ modalOpen # 0
    /\ requestCount < MaxRequests
    /\ typeds' = DestroyTyped(typeds, typedInstance[m])
    /\ answerHTML' = Thinking
    /\ requestCount' = requestCount + 1
    /\ requests' = requests \cup {[modal |-> m, n |-> requestCount + 1]}
    /\ UNCHANGED <<pluginVars, indexVars, modalOpen, modalCount, keyListeners,
                   typedInstance, suggestions, searched, unhandledRejection>>

NewTyped(strings, owner) ==
    [alive |-> TRUE, strings |-> strings, owner |-> owner, el |-> modalOpen,
     afterClose |-> owner \notin keyListeners]

\* generativeSearch resolves and the listener goes on, lines 299-303.  Typed
\* looks "#answer" up in the document: with no modal open there is no such
\* element and the constructor throws inside the async listener.
AnswerArrives(req, answer) ==
    /\ req \in requests
    /\ answer \in generativeSearch(store, req.n)
    /\ requests' = requests \ {req}
    /\ IF modalOpen = 0
       THEN /\ unhandledRejection' = TRUE
            /\ UNCHANGED <<typeds, typedInstance, answerHTML>>
       ELSE /\ typeds' = Append(typeds, NewTyped(AnswerString(answer), req.modal))
            /\ typedInstance' = [typedInstance EXCEPT
                                    ![req.modal] = Len(typeds) + 1]
            /\ answerHTML' = AnswerString(answer)
            /\ UNCHANGED unhandledRejection
    /\ UNCHANGED <<pluginVars, indexVars, modalOpen, modalCount, keyListeners,
                   requestCount, suggestions, searched>>

\* generativeSearch rejects (the store or the embedding call fails while
\* searching): nothing after the await runs and nothing catches.
AnswerRejects(req) ==
    /\ req \in requests
    /\ requests' = requests \ {req}
    /\ unhandledRejection' = TRUE
    /\ UNCHANGED <<pluginVars, indexVars, modalOpen, modalCount, keyListeners,
                   typedInstance, typeds, requestCount, answerHTML,
                   suggestions, searched>>

\* onClose, lines 310-316; the modal's elements leave the document.
OnClose ==
    /\ modalOpen # 0
    /\ typeds' = DestroyTyped(typeds, typedInstance[modalOpen])
    /\ keyListeners' = keyListeners \ {modalOpen}
    /\ modalOpen' = 0
    /\ answerHTML' = NoElement
    /\ UNCHANGED <<pluginVars, indexVars, modalCount, typedInstance, requests,
                   requestCount, suggestions, searched, unhandledRejection>>

\* getSuggestions(query), lines 319-326, for the text in the prompt input.
GetSuggestions(q) ==
    /\ modalOpen # 0
    /\ searched' = semanticSearch(store, q)
    /\ suggestions' = getSuggestions(semanticSearch(store, q))
    /\ UNCHANGED <<pluginVars, indexVars, modalOpen, modalCount, keyListeners,
                   typedInstance, typeds, requests, requestCount, answerHTML,
                   unhandledRejection>>

\* ----------------------------------------------------- specifications
InitPlugin ==
    /\ phase = "constructed"
    /\ settings = DEFAULT_SETTINGS
    /\ supabaseClient = Undefined
    /\ openai = Undefined
    /\ statusBarItemEl = StatusNone
    /\ layoutReady = FALSE
    /\ pendingSaves = [k \in {"supabase", "openai"} |-> 0]

InitIndex ==
    /\ runs = [r \in RunIds |-> NoRun]
    /\ lastSettled = 0
    /\ vault = [p \in Paths |-> Absent]
    /\ store = [p \in Paths |-> NoDoc]
    /\ edits = 0

InitModal ==
    /\ modalOpen = 0
    /\ modalCount = 0
    /\ keyListeners = {}
    /\ typedInstance = [m \in ModalIds |-> 0]
    /\ typeds = << >>
    /\ requests = {}
    /\ requestCount = 0
    /\ answerHTML = NoElement
    /\ suggestions = << >>
    /\ searched = << >>
    /\ unhandledRejection = FALSE

Init == InitPlugin /\ InitIndex /\ InitModal

\* The plugin's life: load, commands, the secrets of the settings tab and
\* the reindex runs over an empty vault.
Next ==
    \/ \E data \in SavedSecrets : Onload(data)
    \/ LayoutReadyCallback
    \/ RefreshIndexCommand
    \/ AISearchCommand
    \/ OnClose
    \/ \E v \in Credentials : SetSupabaseUrl(v)
    \/ \E v \in Credentials : SetSupabaseKey(v)
    \/ \E v \in Credentials : SetOpenaiKey(v)
    \/ SetupSupabase
    \/ SetupOpenai
    \/ \E b \in BOOLEAN : SetIndexOnOpen(b)
    \/ \E r \in RunIds : Enumerate(r)
    \/ \E r \in RunIds : RunResolves(r)
    \/ \E r \in RunIds : RunRejects(r)

Spec == Init /\ [][Next]_vars

\* Loading the plugin and starting runs, while the settings tab is used; the
\* runs make no progress.
NextStartup ==
    \/ \E data \in SavedSecrets : Onload(data)
    \/ LayoutReadyCallback
    \/ RefreshIndexCommand
    \/ \E v \in Credentials : SetSupabaseUrl(v)
    \/ \E v \in Credentials : SetSupabaseKey(v)
    \/ \E v \in Credentials : SetOpenaiKey(v)
    \/ SetupSupabase
    \/ SetupOpenai
    \/ \E b \in BOOLEAN : SetIndexOnOpen(b)

SpecStartup == Init /\ [][NextStartup]_vars

\* Runs from their start to their settlement, while the OpenAI key is edited
\* and setupOpenai writes the status.
NextRunStatus ==
    \/ \E data \in SavedSecrets : Onload(data)
    \/ LayoutReadyCallback
    \/ RefreshIndexCommand
    \/ \E v \in Credentials : SetOpenaiKey(v)
    \/ SetupOpenai
    \/ \E r \in RunIds : Enumerate(r)
    \/ \E r \in RunIds : RunResolves(r)
    \/ \E r \in RunIds : RunRejects(r)

SpecRunStatus == Init /\ [][NextRunStatus]_vars

\* The plugin as onload leaves it when all three secrets are saved.
Configured ==
    [DEFAULT_SETTINGS EXCEPT !.supabaseUrl = "k", !.supabaseKey = "k",
                             !.openaiKey = "k"]

InitConfigured ==
    /\ phase = "loaded"
    /\ settings = Configured
    /\ supabaseClient = NewSupabaseClient(Configured)
    /\ openai = NewOpenai(Configured)
    /\ statusBarItemEl = SetupStatus(NewSupabaseClient(Configured),
                                     NewOpenai(Configured))
    /\ layoutReady = FALSE
    /\ pendingSaves = [k \in {"supabase", "openai"} |-> 0]

\* The stores that earlier runs with no public directory can have left.
IndexedStores ==
    [Paths -> {NoDoc} \cup {StoredDocument(text, PathA, << >>) : text \in Contents}]

\* Reindexing a vault that is edited while the directory settings change.
InitIndexing ==
    /\ InitConfigured
    /\ InitModal
    /\ runs = [r \in RunIds |-> NoRun]
    /\ lastSettled = 0
    /\ vault = [p \in Paths |-> <<1>>]
    /\ store = [p \in Paths |-> NoDoc]
    /\ edits = 0

NextIndexing ==
    \/ RefreshIndexCommand
    \/ \E r \in RunIds : Enumerate(r)
    \/ \E r \in RunIds, p \in Paths : IndexDocument(r, p)
    \/ \E r \in RunIds, p \in Paths : IndexDocumentFails(r, p)
    \/ \E r \in RunIds, p \in Paths : DeleteDocument(r, p)
    \/ \E r \in RunIds : RunResolves(r)
    \/ \E r \in RunIds : RunRejects(r)
    \/ \E p \in Paths, text \in Contents \cup {Absent} : EditDocument(p, text)
    \/ \E value \in DirTexts : SetExcludedDirs(value)

SpecIndexing == InitIndexing /\ [][NextIndexing]_vars

\* Reindex runs alone, over any vault, from an empty store or from the store
\* a run over two one-paragraph notes has left.
InitRunning ==
    /\ InitConfigured
    /\ InitModal
    /\ runs = [r \in RunIds |-> NoRun]
    /\ lastSettled = 0
    /\ vault \in [Paths -> Contents \cup {Absent}]
    /\ store \in {[p \in Paths |-> NoDoc],
                  [p \in Paths |-> StoredDocument(<<1>>, p, << >>)]}
    /\ edits = 0

NextRunning ==
    \/ RefreshIndexCommand
    \/ \E r \in RunIds : Enumerate(r)
    \/ \E r \in RunIds, p \in Paths : IndexDocument(r, p)
    \/ \E r \in RunIds, p \in Paths : IndexDocumentFails(r, p)
    \/ \E r \in RunIds, p \in Paths : DeleteDocument(r, p)
    \/ \E r \in RunIds : RunResolves(r)
    \/ \E r \in RunIds : RunRejects(r)

SpecRunning == InitRunning /\ [][NextRunning]_vars

\* The search modal over a store that earlier runs have filled.
InitSearching ==
    /\ InitConfigured
    /\ InitModal
    /\ runs = [r \in RunIds |-> NoRun]
    /\ lastSettled = 0
    /\ vault = [p \in Paths |-> Absent]
    /\ store \in IndexedStores
    /\ edits = 0

NextSearching ==
    \/ AISearchCommand
    \/ OnClose
    \/ \E m \in ModalIds : KeyListener(m)
    \/ \E req \in Requests, answer \in Answers : AnswerArrives(req, answer)
    \/ \E req \in Requests : AnswerRejects(req)
    \/ \E q \in Queries : GetSuggestions(q)

SpecSearching == InitSearching /\ [][NextSearching]_vars

\* The settings tab over a vault of two notes: the directory texts saved by an
\* earlier session are edited and the index is refreshed.
InitSettings ==
    /\ phase = "loaded"
    /\ settings \in {s \in SavedData : s = [s EXCEPT !.supabaseUrl = "k",
                                                    !.supabaseKey = "k",
                                                    !.openaiKey = "k",
                                                    !.indexOnOpen = FALSE]}
    /\ supabaseClient = NewSupabaseClient(settings)
    /\ openai = NewOpenai(settings)
    /\ statusBarItemEl = SetupStatus(supabaseClient, openai)
    /\ layoutReady = FALSE
    /\ pendingSaves = [k \in {"supabase", "openai"} |-> 0]
    /\ InitModal
    /\ runs = [r \in RunIds |-> NoRun]
    /\ lastSettled = 0
    /\ vault = [p \in Paths |-> <<1>>]
    /\ store = [p \in Paths |-> NoDoc]
    /\ edits = 0

NextSettings ==
    \/ \E value \in DirTexts : SetExcludedDirs(value)
    \/ \E value \in DirTexts : SetPublicDirs(value)
    \/ \E value \in BOOLEAN : SetIndexOnOpen(value)
    \/ RefreshIndexCommand
    \/ \E r \in RunIds : Enumerate(r)
    \/ \E r \in RunIds, p \in Paths : IndexDocument(r, p)
    \/ \E r \in RunIds, p \in Paths : DeleteDocument(r, p)
    \/ \E r \in RunIds : RunResolves(r)

SpecSettings == InitSettings /\ [][NextSettings]_vars

\* The secrets of the settings tab, edited to either of two values or
\* cleared, after a load from any saved secrets.
Secrets == {"", "k", "n"}

NextSecrets ==
    \/ \E data \in SavedSecrets : Onload(data)
    \/ \E value \in Secrets : SetSupabaseUrl(value)
    \/ \E value \in Secrets : SetSupabaseKey(value)
    \/ \E value \in Secrets : SetOpenaiKey(value)
    \/ SetupSupabase
    \/ SetupOpenai

SpecSecrets == Init /\ [][NextSecrets]_vars

\* ------------------------------------------------------------- claims
CredentialsMissing ==
    \/ settings.openaiKey = ""
    \/ settings.supabaseUrl = ""
    \/ settings.supabaseKey = ""

\* C1: at most one reindex run is in flight at any time.
SingleFlight == Cardinality(InFlight) <= 1

\* C2: while the OpenAI key, the Supabase URL or the Supabase key is empty,
\* both commands report themselves unavailable and no reindex run and no
\* search modal is started.
DisabledWithoutCredentials ==
    /\ [](phase = "loaded" /\ CredentialsMissing
            => ~AISearchCheck /\ ~RefreshIndexCheck)
    /\ [][(Started' # Started \/ modalCount' # modalCount)
            => ~CredentialsMissing]_vars

\* C8: after setup, whenever either client is null the status bar reads
\* "Missing API variables", and nothing has thrown.
MissingCredentialsReported ==
    /\ ~unhandledRejection
    /\ phase = "loaded" /\ (supabaseClient = Null \/ openai = Null)
          => statusBarItemEl = StatusMissing

\* C9: the status bar reads "Indexing..." exactly while a reindex run is in
\* flight.
StatusTriState ==
    phase = "loaded" =>
        ((InFlight # {}) <=> (statusBarItemEl = StatusIndexing))

\* C3: a run that repeats the last completed run (same arguments, nothing
\* failed, no document changed since that run started nor during this one)
\* makes no embedding call and reports created = updated = deleted = 0.
ReindexIdempotent ==
    \A r \in RunIds :
        runs[r].phase = "resolved" /\ runs[r].idem /\ ~runs[r].vaultChanged
            => /\ runs[r].embedCalls = 0
               /\ runs[r].created = 0
               /\ runs[r].updated = 0
               /\ runs[r].deleted = 0

\* C4: when a run completes, no document whose path matches one of the run's
\* excluded prefixes is in the vector store.
ExclusionCorrect ==
    [][\A r \in RunIds :
          runs[r].phase # "resolved" /\ runs'[r].phase = "resolved"
              => \A p \in Paths :
                    MatchesAny(p, runs[r].excludedPaths) => store'[p] = NoDoc]_vars

IsNonIncreasing(results) ==
    \A i \in 1..Len(results) : \A j \in 1..Len(results) :
        i < j => results[i].similarity >= results[j].similarity

\* C6: once every answer request of the open modal has settled, the answer
\* box shows the generated text or "No answer", and no error escaped.
AnswerAlwaysShown ==
    /\ ~unhandledRejection
    /\ modalCount = 1 /\ modalOpen = 1 /\ requestCount > 0 /\ requests = {}
          => answerHTML.kind \in {"text", "noanswer"}

\* C7: what getSuggestions returns is what semanticSearch returned, in
\* non-increasing similarity order, and at most topK results.
SearchMonotone ==
    /\ suggestions = searched
    /\ IsNonIncreasing(suggestions)
    /\ Len(suggestions) <= TopK

\* C7's case: the store holds more chunks than topK and the suggestions are
\* topK results of different similarity.
SuggestionsRankedAndCut ==
    /\ Cardinality(StoredChunks(store)) > TopK
    /\ Len(suggestions) = TopK
    /\ suggestions[1].similarity > suggestions[Len(suggestions)].similarity

\* C10: of a modal that has been closed, no keydown listener is registered
\* and no Typed instance is alive, whatever was pending when it closed.
ClosedModalLeavesNothing ==
    \A m \in 1..modalCount :
        m # modalOpen
            => /\ m \notin keyListeners
               /\ \A t \in 1..Len(typeds) :
                     typeds[t].owner = m => ~typeds[t].alive

\* The runs a step starts.
StartedByStep == {r \in RunIds : runs[r].phase = "none" /\ runs'[r].phase # "none"}

\* C11: onload registers the layout-ready callback exactly when the loaded
\* indexOnOpen is true and both clients are non-null, and nothing else
\* registers it; a run is started from the callback only when the callback
\* fires with both clients still non-null, and then it is started; every
\* other run is started by the "Refresh Index" command.
IndexOnOpenStartsRun ==
    [][/\ phase # phase'
          => (layoutReady' <=> /\ settings'.indexOnOpen
                               /\ supabaseClient' # Null
                               /\ openai' # Null)
       /\ (~layoutReady /\ layoutReady') => phase = "constructed"
       /\ \A r \in StartedByStep :
             IF runs'[r].site = "onLayoutReady"
             THEN layoutReady /\ ~layoutReady' /\ ClientsPresent
             ELSE /\ runs'[r].site = "refresh-embedding"
                  /\ layoutReady' = layoutReady
                  /\ phase = "loaded"
                  /\ RefreshIndexCheck
       /\ (layoutReady /\ ~layoutReady' /\ ClientsPresent /\ CanStartRun)
            => \E r \in StartedByStep : runs'[r].site = "onLayoutReady"
      ]_vars

\* C11 witness: a run started by the layout-ready callback is in flight while
\* the status bar shows the indexing text.
RunStartedOnLayoutReady ==
    /\ ~layoutReady
    /\ statusBarItemEl = StatusIndexing
    /\ \E r \in InFlight : runs[r].site = "onLayoutReady"

HasNoEmptyEntry(list) == \A i \in 1..Len(list) : list[i] # << >>

\* C12: after an edit of the "Excluded Directories" (resp. "Public
\* Directories") text, excludedDirsList (resp. publicDirsList) has no
\* empty-string entry, and an empty text yields the default, empty list.
DirsListHasNoEmptyEntry ==
    [][/\ settings'.excludedDirs # settings.excludedDirs
          => /\ HasNoEmptyEntry(settings'.excludedDirsList)
             /\ settings'.excludedDirs = << >>
                  => settings'.excludedDirsList
                       = DEFAULT_SETTINGS.excludedDirsList
       /\ settings'.publicDirs # settings.publicDirs
          => /\ HasNoEmptyEntry(settings'.publicDirsList)
             /\ settings'.publicDirs = << >>
                  => settings'.publicDirsList
                       = DEFAULT_SETTINGS.publicDirsList
      ]_vars

\* C13: after every call of setupSupabase, supabaseClient is non-null if and
\* only if both supabaseUrl and supabaseKey are non-empty, and is then a
\* client of the current URL and key; after every call of setupOpenai,
\* openai is non-null if and only if openaiKey is non-empty, and is then a
\* client of the current key; a setup call from the settings tab leaves the
\* other client as it was.
ClientsFollowCredentials ==
    [][/\ (phase # phase' \/ pendingSaves'["supabase"] < pendingSaves["supabase"])
          => /\ supabaseClient' # Null
                  <=> (settings'.supabaseUrl # "" /\ settings'.supabaseKey # "")
             /\ supabaseClient' # Null
                  => /\ supabaseClient'.url = settings'.supabaseUrl
                     /\ supabaseClient'.key = settings'.supabaseKey
       /\ (phase # phase' \/ pendingSaves'["openai"] < pendingSaves["openai"])
          => /\ openai' # Null <=> settings'.openaiKey # ""
             /\ openai' # Null => openai'.key = settings'.openaiKey
       /\ pendingSaves'["supabase"] < pendingSaves["supabase"]
          => openai' = openai
       /\ pendingSaves'["openai"] < pendingSaves["openai"]
          => supabaseClient' = supabaseClient
      ]_vars

\* C13 witness: setupSupabase has replaced the loaded client by one of the
\* edited URL while openai, whose key is empty, is null, and no setup call
\* is pending.
ClientReplacedAndDropped ==
    /\ phase = "loaded"
    /\ \A k \in {"supabase", "openai"} : pendingSaves[k] = 0
    /\ supabaseClient # Null
    /\ supabaseClient.url = "n"
    /\ openai = Null

\* The runs a step settles.
SettledByStep == {r \in InFlight : runs'[r].phase \in {"resolved", "rejected"}}

\* C14: the step that resolves a run writes the "Loaded" status, the step
\* that rejects a run writes the "Error" status and raises no unhandled
\* rejection, and when runs have been started and all of them have settled
\* the status is not "Indexing...".
RunsEndWithTerminalStatus ==
    /\ []((Started # {} /\ InFlight = {}) => statusBarItemEl # StatusIndexing)
    /\ [][\A r \in SettledByStep :
             /\ runs'[r].phase = "resolved" => statusBarItemEl' = StatusLoaded
             /\ runs'[r].phase = "rejected"
                  => /\ statusBarItemEl' = StatusError
                     /\ unhandledRejection' = unhandledRejection
         ]_vars

\* C14 witness: several runs were started, all have settled, the last of
\* them by a rejection, and the status bar shows the error text.
AllRunsSettledLastRejected ==
    /\ Cardinality(Started) > 1
    /\ InFlight = {}
    /\ lastSettled # 0
    /\ runs[lastSettled].phase = "rejected"
    /\ \E r \in RunIds : runs[r].phase = "resolved"
    /\ statusBarItemEl = StatusError
    /\ ~unhandledRejection

\* The Typed instances the open modal has created and nothing has destroyed.
LiveTypedOfOpenModal ==
    {t \in 1..Len(typeds) : /\ typeds[t].alive
                            /\ typeds[t].owner = modalOpen
                            /\ typeds[t].el = modalOpen}

\* C15: the open modal has at most one Typed instance that has not been
\* destroyed, and once all of its Shift+Enter requests have resolved the
\* answer box shows the answer to the most recent request.
OneTypedShowsLatestAnswer ==
    /\ Cardinality(LiveTypedOfOpenModal) <= 1
    /\ (/\ modalCount = 1 /\ modalOpen = 1
        /\ requestCount > 0 /\ requests = {}
        /\ ~unhandledRejection)
          => answerHTML \in {AnswerString(answer) :
                                answer \in generativeSearch(store, requestCount)}

=============================================================================
